---------------------------- MODULE Spec2Model ----------------------------
(***************************************************************************)
(* Verification model of eoscpp: the closed-form cubic root solver         *)
(* (include/eos/roots.hpp), the cubic-EoS parameter cache                  *)
(* (include/eos/cubic_eos/*.hpp) and the successive-substitution vapor     *)
(* pressure flash (include/eos/flash.hpp).                                 *)
(*                                                                         *)
(* Numbers.  The sources compute in double.  The model computes in fixed   *)
(* point: a real v is carried as the integer trunc(v * One).  Every        *)
(* product is rescaled with Quot, which truncates towards zero so that     *)
(* conjugate values stay exact conjugates, as they do in IEEE arithmetic.  *)
(* NaN is carried as the value NaN; every comparison with it is false.     *)
(***************************************************************************)
EXTENDS Integers, Sequences, FiniteSets, TLC

VARIABLES
  \* ---- root solver (roots.hpp) ----
  coef,      \* the argument a of roots / real_roots / num_of_real_roots
  xreal,     \* the vector returned by real_roots(a)
  nreal,     \* the int returned by num_of_real_roots(a)
  called,    \* which of the two functions have returned
  \* ---- EoS object (cubic_eos_base.hpp, van_der_waals_eos.hpp, peng_robinson_eos.hpp) ----
  eosobj,    \* the fields kind, pc_, tc_, ac_, bc_, omega_, m_
  lastargs,  \* history: the arguments of the latest constructor / set_params
  nsets,     \* history: the number of set_params calls so far
  \* ---- flash<Eos>::vapor_pressure (flash.hpp) ----
  tol_, max_iter_,   \* the members of the flash object
  p_init,            \* the argument of the call
  p, eps, iter,      \* the locals of vapor_pressure
  pc,                \* position of the call: "loop", "done", "checked"
  ret,               \* the returned pair, flattened: [p, rsd, iter, error]
  eos,               \* the Eos of the flash: pressure -> what state(p, t) answers
  evals,             \* history: the pressures at which the loop evaluated the Eos
  rsds,              \* history: the residual computed by each completed iteration
  chk                \* the re-evaluation of the Eos after the call (history)

rootvars  == <<coef, xreal, nreal, called>>
eosvars   == <<eosobj, lastargs, nsets>>
flashvars == <<tol_, max_iter_, p_init, p, eps, iter, pc, ret, eos, evals, rsds, chk>>
vars      == <<rootvars, eosvars, flashvars>>

-----------------------------------------------------------------------------
(* Fixed-point arithmetic                                                  *)

\* units per 1.0 of the fixed-point carrier of double
One == 100

Abs(x) == IF x < 0 THEN -x ELSE x

Sgn(x) == IF x < 0 THEN -1 ELSE IF x > 0 THEN 1 ELSE 0

\* x / y on the carrier, truncated towards zero (y > 0)
Quot(x, y) == Sgn(x) * (Abs(x) \div y)

RECURSIVE SqrtSearch(_, _, _)
SqrtSearch(n, lo, hi) ==
  IF lo >= hi THEN lo
  ELSE LET mid == (lo + hi + 1) \div 2
       IN IF mid * mid <= n THEN SqrtSearch(n, mid, hi) ELSE SqrtSearch(n, lo, mid - 1)

\* floor(sqrt(n)) for 0 <= n < 2^31
ISqrt(n) == SqrtSearch(n, 0, 46340)

RECURSIVE CbrtSearch(_, _, _)
CbrtSearch(n, lo, hi) ==
  IF lo >= hi THEN lo
  ELSE LET mid == (lo + hi + 1) \div 2
       IN IF mid * mid * mid <= n THEN CbrtSearch(n, mid, hi) ELSE CbrtSearch(n, lo, mid - 1)

\* floor(cbrt(n)) for 0 <= n < 2^31
ICbrt(n) == CbrtSearch(n, 0, 1290)

\* std::sqrt of a non-negative carrier value
RealSqrt(v) == ISqrt(v * One)

\* std::pow(v, 1.0 / 3.0) of a non-negative carrier value
RealCbrt(v) == ICbrt(v * One * One)

RECURSIVE CosThirdSearch(_, _, _)
CosThirdSearch(c, lo, hi) ==
  IF lo >= hi THEN lo
  ELSE LET mid == (lo + hi + 1) \div 2
       IN IF 4 * mid * mid * mid - 3 * mid * One * One <= c * One * One
          THEN CosThirdSearch(c, mid, hi)
          ELSE CosThirdSearch(c, lo, mid - 1)

\* cos(phi / 3) from c = cos(phi), -pi <= phi <= pi: the solution of
\* 4 t^3 - 3 t = c in [1/2, 1], where the left side is increasing
CosThird(c) == CosThirdSearch(c, One \div 2, One)

-----------------------------------------------------------------------------
(* std::complex<double>: re and im on the carrier; imneg is the sign bit   *)
(* of im, which decides arg(z) = +pi or -pi on the negative real axis.     *)

Cx(re, im, imneg) == [re |-> re, im |-> im, imneg |-> imneg]

\* complex<T>(x, 0)
CReal(x) == Cx(x, 0, FALSE)

\* operator+(const T&, const complex<T>&), operator-(const complex<T>&, const T&)
\* with the real x already negated: only the real part changes
CAddReal(x, z) == Cx(x + z.re, z.im, z.imneg)

\* operator+(complex, complex)
CAdd(z, w) == Cx(z.re + w.re, z.im + w.im,
                 IF z.im + w.im = 0 THEN z.imneg /\ w.imneg ELSE z.im + w.im < 0)

\* unary operator-
CNeg(z) == Cx(-z.re, -z.im, IF z.im = 0 THEN ~z.imneg ELSE z.im > 0)

\* operator*(complex, complex)
CMul(z, w) ==
  LET re == Quot(z.re * w.re, One) - Quot(z.im * w.im, One)
      im == Quot(z.re * w.im, One) + Quot(z.im * w.re, One)
  IN Cx(re, im, im < 0)

\* std::abs(complex): hypot(re, im)
CAbs(z) == IF z.im = 0 THEN Abs(z.re) ELSE ISqrt(z.re * z.re + z.im * z.im)

\* sqrt(std::complex<T>(disc, 0)): the principal square root of a real
CSqrtReal(d) == IF d >= 0 THEN Cx(RealSqrt(d), 0, FALSE) ELSE Cx(0, RealSqrt(-d), FALSE)

\* pow(const complex<T>&, const T&) with exponent 1.0 / 3.0: the principal
\* cube root polar(exp(log|z| / 3), arg(z) / 3), and pow(z.real(), 1/3) for
\* a positive real z
CPowThird(z) ==
  IF z.im = 0 /\ z.re > 0 THEN CReal(RealCbrt(z.re))
  ELSE IF z.im = 0 /\ z.re = 0 THEN Cx(0, 0, z.imneg)
  ELSE LET r   == CAbs(z)
           rho == RealCbrt(r)
           c   == CosThird(Quot(z.re * One, r))
           sn  == ISqrt(One * One - c * c)
           sg  == IF z.im < 0 \/ (z.im = 0 /\ z.imneg) THEN -1 ELSE 1
       IN Cx(Quot(rho * c, One), sg * Quot(rho * sn, One), sg < 0)

-----------------------------------------------------------------------------
(* roots.hpp.  To keep the depressed cubic exact the model carries         *)
(*   p9 = 9 p,  q54 = 54 q,  disc2916 = 2916 disc = 4 p9^3 + q54^2         *)
(* as integers, 27 (-q +- s), 3 u1, 3 u2 and 3 x on the carrier: a root x  *)
(* of the cubic is the carrier value 3 * One * x.                          *)

\* const auto p = (3 * a[1] - a[0] * a[0]) / 9;           (times 9)
p9(a) == 3 * a[2] - a[1] * a[1]

\* const auto q = (27 * a[2] + a[0] * (2 * a[0] * a[0] - 9 * a[1])) / 54;   (times 54)
q54(a) == 27 * a[3] + a[1] * (2 * a[1] * a[1] - 9 * a[2])

\* const auto disc = p * p * p + q * q;                    (times 2916)
disc2916(a) == 4 * p9(a) * p9(a) * p9(a) + q54(a) * q54(a)

\* constexpr double sqrt3 = 1.7320508075688772935;
sqrt3 == 173

\* w1 = complex(-0.5, sqrt3 / 2), w2 = complex(-0.5, -sqrt3 / 2)
w1 == Cx(-(One \div 2), sqrt3 \div 2, FALSE)

w2 == Cx(-(One \div 2), -(sqrt3 \div 2), TRUE)

\* roots(a): the three complex values x1, x2, x3 of Cardano's formula (times 3)
roots(a) ==
  LET s   == CSqrtReal(disc2916(a) * One)                    \* 54 s
      zp  == CAddReal(-q54(a) * One, s)                      \* 54 (-q + s)
      zm  == CAddReal(-q54(a) * One, CNeg(s))                \* 54 (-q - s)
      hp  == Cx(Quot(zp.re, 2), Quot(zp.im, 2), zp.imneg)    \* 27 (-q + s)
      hm  == Cx(Quot(zm.re, 2), Quot(zm.im, 2), zm.imneg)    \* 27 (-q - s)
      u1  == CPowThird(hp)
      u2  == CPowThird(hm)
      sh  == -a[1] * One                                     \* - a[0] / 3
      x1  == CAddReal(sh, CAdd(u1, u2))
      x2  == CAddReal(sh, CAdd(CMul(w1, u1), CMul(w2, u2)))
      x3  == CAddReal(sh, CAdd(CMul(w2, u1), CMul(w1, u2)))
  IN <<x1, x2, x3>>

\* constexpr double eps = 1e-10, on the carrier: the least threshold above
\* the carrier's own rounding of an imaginary part that is exactly zero
ImagEps == 3

\* for (auto&& xi : x) if (fabs(xi.imag()) < eps) xreal.push_back(xi.real());
real_roots(a) ==
  LET x == roots(a)
      keep(i) == IF Abs(x[i].im) < ImagEps THEN <<x[i].re>> ELSE <<>>
  IN keep(1) \o keep(2) \o keep(3)

num_of_real_roots(a) ==
  LET det == disc2916(a)
  IN IF det = 0 THEN (IF p9(a) = 0 THEN 1 ELSE 2)
     ELSE IF det > 0 THEN 3
     ELSE 1

-----------------------------------------------------------------------------
(* Inputs of the root solver                                               *)

\* coefficients are drawn from -MaxCoef .. MaxCoef
MaxCoef == 2

\* and from the cubics (x - r1)(x - r2)(x - r3) with 0 <= r1 <= r2 <= r3 <= MaxRoot
MaxRoot == 3

FromRoots(r1, r2, r3) == <<-(r1 + r2 + r3), r1 * r2 + r1 * r3 + r2 * r3, -(r1 * r2 * r3)>>

RootTriples == {r \in (0..MaxRoot) \X (0..MaxRoot) \X (0..MaxRoot) : r[1] <= r[2] /\ r[2] <= r[3]}

Cubics == ((-MaxCoef..MaxCoef) \X (-MaxCoef..MaxCoef) \X (-MaxCoef..MaxCoef))
          \cup {FromRoots(r[1], r[2], r[3]) : r \in RootTriples}

RootInit ==
  /\ coef \in Cubics
  /\ xreal = <<>>
  /\ nreal = 0
  /\ called = {}

RootIdle ==
  /\ coef = <<0, 0, 0>>
  /\ xreal = <<>>
  /\ nreal = 0
  /\ called = {}

\* a call real_roots(a)
RealRoots ==
  /\ "real_roots" \notin called
  /\ xreal' = real_roots(coef)
  /\ called' = called \cup {"real_roots"}
  /\ UNCHANGED <<coef, nreal, eosvars, flashvars>>

\* a call num_of_real_roots(a)
NumOfRealRoots ==
  /\ "num_of_real_roots" \notin called
  /\ nreal' = num_of_real_roots(coef)
  /\ called' = called \cup {"num_of_real_roots"}
  /\ UNCHANGED <<coef, xreal, eosvars, flashvars>>

-----------------------------------------------------------------------------
(* flash.hpp: double values of the flash                                   *)

\* a quiet NaN of double; no carrier value of the model is this small
NaN == -1000000

\* mutant of FGt: NaN ordered above every number
FGt_NaNIsLarge(x, y) == y # NaN /\ (x = NaN \/ x > y)

\* x > y on double: false when either side is NaN
FGt(x, y) == x # NaN /\ y # NaN /\ x > y

\* x <= y on double: false when either side is NaN
FLe(x, y) == x # NaN /\ y # NaN /\ x <= y

\* x / y on double, y > 0 or NaN
FDiv(x, y) == IF x = NaN \/ y = NaN THEN NaN ELSE Quot(x * One, y)

\* x * y on double
FMul(x, y) == IF x = NaN \/ y = NaN THEN NaN ELSE Quot(x * y, One)

\* fabs(1 - r)
FAbs1Minus(r) == IF r = NaN THEN NaN ELSE Abs(One - r)

\* enum class error_code
success == "success"

max_iter_reached == "max_iter_reached"

multiple_roots_not_found == "multiple_roots_not_found"

error_code == {success, max_iter_reached, multiple_roots_not_found}

\* struct iter_report, together with the pressure of the returned pair
Return(pr, rsd, it, err) == [p |-> pr, rsd |-> rsd, iter |-> it, error |-> err]

-----------------------------------------------------------------------------
(* The template parameter Eos of flash<Eos>.  vapor_pressure uses it only  *)
(* through eos_.state(p, t), state.zfactor() and state.fugacity_coeff(z).  *)
(* The member eos_ is const during the call, so the answer at a pressure   *)
(* is a function of the pressure (t is fixed by the call): the model       *)
(* chooses an answer the first time a pressure is evaluated and keeps it   *)
(* in eos.  An answer is the vector z of Z-factors and the fugacity        *)
(* coefficient at its largest and at its smallest entry.                   *)

RECURSIVE SeqMax(_)
\* *std::max_element(z.begin(), z.end())
SeqMax(z) == IF Len(z) = 1 THEN z[1]
             ELSE LET m == SeqMax(Tail(z)) IN IF z[1] >= m THEN z[1] ELSE m

RECURSIVE SeqMin(_)
\* *std::min_element(z.begin(), z.end())
SeqMin(z) == IF Len(z) = 1 THEN z[1]
             ELSE LET m == SeqMin(Tail(z)) IN IF z[1] <= m THEN z[1] ELSE m

\* the vectors state.zfactor() may answer
ZAnswers == {<<>>, <<90>>, <<30, 90>>, <<90, 30, 60>>, <<37, 37, 37>>}

\* the values fugacity_coeff may answer at the largest and at the smallest Z-factor
PhiVap == {NaN, 100}

PhiLiq == {NaN, 50, 100, 105}

\* fugacity_coeff is a function of z: one value where the two ends coincide
PhiAnswers(z) ==
  IF Len(z) = 0 THEN {<<>>}
  ELSE {f \in [{SeqMin(z), SeqMax(z)} -> PhiVap \cup PhiLiq] :
          f[SeqMax(z)] \in PhiVap /\ f[SeqMin(z)] \in PhiLiq}

EosAnswers == UNION {{[z |-> z, phi |-> f] : f \in PhiAnswers(z)} : z \in ZAnswers}

\* const auto state = eos_.state(p, t): the answers the Eos may give at pressure pr
state(pr) == IF pr \in DOMAIN eos THEN {eos[pr]} ELSE EosAnswers

\* state.fugacity_coeff(z)
fugacity_coeff(st, z) == st.phi[z]

\* mutant of PhiRatio: phi_vap / phi_liq
PhiRatio_VapOverLiq(st) ==
  FDiv(fugacity_coeff(st, SeqMax(st.z)), fugacity_coeff(st, SeqMin(st.z)))

\* phi_liq / phi_vap of lines 77-80
PhiRatio(st) == FDiv(fugacity_coeff(st, SeqMin(st.z)), fugacity_coeff(st, SeqMax(st.z)))

\* mutant of TooFewRoots: the test z.size() < 1
TooFewRoots_OnlyEmpty(z) == Len(z) < 1

\* if (z.size() < 2)
TooFewRoots(z) == Len(z) < 2

\* mutant of LoopCond: the bound tested with <=
LoopCond_OneMore == FGt(eps, tol_) /\ iter <= max_iter_

\* mutant of LoopCond: the residual tested with >=
LoopCond_NonStrict == eps # NaN /\ tol_ # NaN /\ eps >= tol_ /\ iter < max_iter_

\* while (eps > tol_ && iter < max_iter_)
LoopCond == FGt(eps, tol_) /\ iter < max_iter_

\* mutant of NextPressure: the ratio taken the other way round
NextPressure_Inverted(pr, st) ==
  FMul(pr, FDiv(fugacity_coeff(st, SeqMax(st.z)), fugacity_coeff(st, SeqMin(st.z))))

\* p *= phi_liq / phi_vap;
NextPressure(pr, st) == FMul(pr, PhiRatio(st))

-----------------------------------------------------------------------------
(* flash<Eos>::vapor_pressure                                              *)

\* max_iter_ is drawn from -1 .. MaxIter
MaxIter == 3

Tols == {0, 10, 100, 150}

PInits == {100, 250}

NoReturn == Return(0, 0, 0, "none")

NoCheck == [ok |-> FALSE, at_ret |-> 0, at_prev |-> 0]

\* the flash object is constructed and vapor_pressure(p_init, t) has run
\* lines 62-64: auto p = p_init; double eps = 1; int iter = 0;
FlashInit ==
  /\ tol_ \in Tols
  /\ max_iter_ \in -1..MaxIter
  /\ p_init \in PInits
  /\ p = p_init
  /\ eps = One
  /\ iter = 0
  /\ pc = "loop"
  /\ ret = NoReturn
  /\ eos = <<>>
  /\ evals = <<>>
  /\ rsds = <<>>
  /\ chk = NoCheck

FlashIdle ==
  /\ tol_ = 0 /\ max_iter_ = 0 /\ p_init = 0 /\ p = 0 /\ eps = One /\ iter = 0
  /\ pc = "idle" /\ ret = NoReturn /\ eos = <<>> /\ evals = <<>> /\ rsds = <<>>
  /\ chk = NoCheck

\* one pass of the loop body that reaches ++iter (lines 69-87)
Iterate ==
  /\ pc = "loop"
  /\ LoopCond
  /\ \E st \in state(p) :
       /\ ~TooFewRoots(st.z)
       /\ eos' = (p :> st) @@ eos
       /\ eps' = FAbs1Minus(PhiRatio(st))
       /\ p' = NextPressure(p, st)
       /\ iter' = iter + 1
       /\ evals' = Append(evals, p)
       /\ rsds' = Append(rsds, FAbs1Minus(PhiRatio(st)))
  /\ UNCHANGED <<tol_, max_iter_, p_init, pc, ret, chk, rootvars, eosvars>>

\* the pass of the loop body that returns at line 74
ReturnMultipleRootsNotFound ==
  /\ pc = "loop"
  /\ LoopCond
  /\ \E st \in state(p) :
       /\ TooFewRoots(st.z)
       /\ eos' = (p :> st) @@ eos
       /\ evals' = Append(evals, p)
       /\ ret' = Return(0, eps, iter, multiple_roots_not_found)
  /\ pc' = "done"
  /\ UNCHANGED <<tol_, max_iter_, p_init, p, eps, iter, rsds, chk, rootvars, eosvars>>

\* mutant of ReturnMaxIterReached: the pressure iterate is returned
ReturnMaxIterReached_KeepsPressure ==
  /\ pc = "loop"
  /\ ~LoopCond
  /\ iter >= max_iter_
  /\ ret' = Return(p, eps, iter, max_iter_reached)
  /\ pc' = "done"
  /\ UNCHANGED <<tol_, max_iter_, p_init, p, eps, iter, eos, evals, rsds, chk, rootvars, eosvars>>

\* lines 90-93
ReturnMaxIterReached ==
  /\ pc = "loop"
  /\ ~LoopCond
  /\ iter >= max_iter_
  /\ ret' = Return(0, eps, iter, max_iter_reached)
  /\ pc' = "done"
  /\ UNCHANGED <<tol_, max_iter_, p_init, p, eps, iter, eos, evals, rsds, chk, rootvars, eosvars>>

\* line 95
ReturnSuccess ==
  /\ pc = "loop"
  /\ ~LoopCond
  /\ ~(iter >= max_iter_)
  /\ ret' = Return(p, eps, iter, success)
  /\ pc' = "done"
  /\ UNCHANGED <<tol_, max_iter_, p_init, p, eps, iter, eos, evals, rsds, chk, rootvars, eosvars>>

\* the residual |1 - phi_liq / phi_vap| of an answer of the Eos; NaN where
\* the answer has no two roots to compare
ResidualOf(st) == IF TooFewRoots(st.z) THEN NaN ELSE FAbs1Minus(PhiRatio(st))

\* after a successful call the caller evaluates the Eos again (lines 69-82
\* outside the loop): at the returned pressure, and at the last pressure the
\* loop evaluated
Reevaluate ==
  /\ pc = "done"
  /\ ret.error = success
  /\ \E st \in state(ret.p) :
       /\ eos' = (ret.p :> st) @@ eos
       /\ \E sp \in (IF evals = <<>> THEN {st} ELSE state(evals[Len(evals)])) :
            chk' = [ok      |-> TRUE,
                    at_ret  |-> ResidualOf(st),
                    at_prev |-> IF evals = <<>> THEN NaN ELSE ResidualOf(sp)]
  /\ pc' = "checked"
  /\ UNCHANGED <<tol_, max_iter_, p_init, p, eps, iter, ret, evals, rsds, rootvars, eosvars>>

-----------------------------------------------------------------------------
(* cubic_eos_base.hpp, van_der_waals_eos.hpp, peng_robinson_eos.hpp:       *)
(* the parameters an EoS object caches                                     *)

van_der_waals_eos == "van_der_waals_eos"

peng_robinson_eos == "peng_robinson_eos"

\* gas_constant<double>() of eos/common/thermodynamic_constants.hpp, 8.31 on the carrier
gas_constant == 831

\* cubic_eos_traits<Derived>::omega_a: 0.421875 and 0.45724
omega_a(kind) == IF kind = van_der_waals_eos THEN 42 ELSE 45

\* cubic_eos_traits<Derived>::omega_b: 0.125 and 0.07780
omega_b(kind) == IF kind = van_der_waals_eos THEN 12 ELSE 7

\* return (omega_a * R * R) * tc * tc / pc;
critical_attraction_param(kind, pcrit, tcrit) ==
  FDiv(FMul(FMul(FMul(FMul(omega_a(kind), gas_constant), gas_constant), tcrit), tcrit), pcrit)

\* return (omega_b * R) * tc / pc;
critical_repulsion_param(kind, pcrit, tcrit) ==
  FDiv(FMul(FMul(omega_b(kind), gas_constant), tcrit), pcrit)

\* return 0.3796 + omega * (1.485 - omega * (0.1644 - 0.01667 * omega));
m(omega) == 37 + FMul(omega, 148 - FMul(omega, 16 - FMul(1, omega)))

\* cubic_eos_crtp_base(double pc, double tc): pc_{pc}, tc_{tc}, ac_{...}, bc_{...}
BaseConstruct(kind, pcrit, tcrit) ==
  [kind |-> kind, pc_ |-> pcrit, tc_ |-> tcrit,
   ac_ |-> critical_attraction_param(kind, pcrit, tcrit),
   bc_ |-> critical_repulsion_param(kind, pcrit, tcrit)]

\* van_der_waals_eos(double pc, double tc) : base_type{pc, tc}
VdwConstruct(pcrit, tcrit) == BaseConstruct(van_der_waals_eos, pcrit, tcrit)

\* peng_robinson_eos(double pc, double tc, double omega)
\*   : base_type{pc, tc}, omega_{omega}, m_{m(omega)}
PrConstruct(pcrit, tcrit, omega) ==
  [kind |-> peng_robinson_eos, pc_ |-> pcrit, tc_ |-> tcrit,
   ac_ |-> critical_attraction_param(peng_robinson_eos, pcrit, tcrit),
   bc_ |-> critical_repulsion_param(peng_robinson_eos, pcrit, tcrit),
   omega_ |-> omega, m_ |-> m(omega)]

\* mutant of base_set_params: bc_ is not recomputed
base_set_params_StaleBc(obj, pcrit, tcrit) ==
  [obj EXCEPT !.pc_ = pcrit,
              !.tc_ = tcrit,
              !.ac_ = critical_attraction_param(obj.kind, pcrit, tcrit)]

\* cubic_eos_crtp_base::set_params(double pc, double tc)
base_set_params(obj, pcrit, tcrit) ==
  [obj EXCEPT !.pc_ = pcrit,
              !.tc_ = tcrit,
              !.ac_ = critical_attraction_param(obj.kind, pcrit, tcrit),
              !.bc_ = critical_repulsion_param(obj.kind, pcrit, tcrit)]

\* van_der_waals_eos::set_params(double pc, double tc)
vdw_set_params(obj, pcrit, tcrit) == base_set_params(obj, pcrit, tcrit)

\* peng_robinson_eos::set_params(double pc, double tc, double omega)
pr_set_params(obj, pcrit, tcrit, omega) ==
  [base_set_params(obj, pcrit, tcrit) EXCEPT !.omega_ = omega, !.m_ = m(omega)]

\* double reduced_pressure(double p) const noexcept { return p / pc_; }
reduced_pressure(obj, pr) == FDiv(pr, obj.pc_)

\* double reduced_temperature(double t) const noexcept { return t / tc_; }
reduced_temperature(obj, t) == FDiv(t, obj.tc_)

\* critical pressures and temperatures are 1.0 .. MaxCrit
MaxCrit == 3

\* at most MaxSets calls of set_params on an object
MaxSets == 3

Crits == {k * One : k \in 1..MaxCrit}

Omegas == {1, 20, 50}

EosInit ==
  /\ \/ \E pcrit \in Crits, tcrit \in Crits :
          /\ eosobj = VdwConstruct(pcrit, tcrit)
          /\ lastargs = [pc |-> pcrit, tc |-> tcrit]
     \/ \E pcrit \in Crits, tcrit \in Crits, omega \in Omegas :
          /\ eosobj = PrConstruct(pcrit, tcrit, omega)
          /\ lastargs = [pc |-> pcrit, tc |-> tcrit, omega |-> omega]
  /\ nsets = 0

EosIdle ==
  /\ eosobj = VdwConstruct(One, One)
  /\ lastargs = [pc |-> One, tc |-> One]
  /\ nsets = 0

\* eos.set_params(pc, tc) on a van der Waals object
VdwSetParams ==
  /\ eosobj.kind = van_der_waals_eos
  /\ nsets < MaxSets
  /\ \E pcrit \in Crits, tcrit \in Crits :
       /\ eosobj' = vdw_set_params(eosobj, pcrit, tcrit)
       /\ lastargs' = [pc |-> pcrit, tc |-> tcrit]
  /\ nsets' = nsets + 1
  /\ UNCHANGED <<rootvars, flashvars>>

\* eos.set_params(pc, tc, omega) on a Peng-Robinson object
PrSetParams ==
  /\ eosobj.kind = peng_robinson_eos
  /\ nsets < MaxSets
  /\ \E pcrit \in Crits, tcrit \in Crits, omega \in Omegas :
       /\ eosobj' = pr_set_params(eosobj, pcrit, tcrit, omega)
       /\ lastargs' = [pc |-> pcrit, tc |-> tcrit, omega |-> omega]
  /\ nsets' = nsets + 1
  /\ UNCHANGED <<rootvars, flashvars>>

\* the public base-class set_params(pc, tc) called on a Peng-Robinson object
\* (eos.base_type::set_params(pc, tc)): the acentric factor stays
PrBaseSetParams ==
  /\ eosobj.kind = peng_robinson_eos
  /\ nsets < MaxSets
  /\ \E pcrit \in Crits, tcrit \in Crits :
       /\ eosobj' = base_set_params(eosobj, pcrit, tcrit)
       /\ lastargs' = [lastargs EXCEPT !.pc = pcrit, !.tc = tcrit]
  /\ nsets' = nsets + 1
  /\ UNCHANGED <<rootvars, flashvars>>

-----------------------------------------------------------------------------
(* Specifications: one per component; the other components stay idle.      *)

Init == FlashInit /\ RootIdle /\ EosIdle

Next ==
  \/ Iterate
  \/ ReturnMultipleRootsNotFound
  \/ ReturnMaxIterReached
  \/ ReturnSuccess
  \/ Reevaluate

Spec == Init /\ [][Next]_vars

\* the call runs to its return: the loop is sequential and nothing suspends it
FairSpec == Spec /\ WF_vars(Next)

RootsInit == RootInit /\ FlashIdle /\ EosIdle

RootsNext == RealRoots \/ NumOfRealRoots

RootsSpec == RootsInit /\ [][RootsNext]_vars

EosObjInit == EosInit /\ RootIdle /\ FlashIdle

EosObjNext == VdwSetParams \/ PrSetParams \/ PrBaseSetParams

EosSpec == EosObjInit /\ [][EosObjNext]_vars

-----------------------------------------------------------------------------
(* Claims about flash<Eos>::vapor_pressure                                 *)

Returned == pc \in {"done", "checked"}

Failed == ret.error \in {max_iter_reached, multiple_roots_not_found}

\* the last pressure at which the loop evaluated the Eos
LastEval == evals[Len(evals)]

\* C1: for every p_init, tol and max_iter >= 0 the call returns, with one
\* of the three statuses; the loop evaluates the Eos at most max_iter times
\* and the iteration count, during the call and in the report, stays within
\* 0 .. max_iter.
C1_TerminatesWithinMaxIter ==
  /\ [](max_iter_ >= 0 =>
          /\ 0 <= iter /\ iter <= max_iter_
          /\ Len(evals) <= max_iter_
          /\ (Returned => /\ ret.error \in error_code
                          /\ 0 <= ret.iter /\ ret.iter <= max_iter_))
  /\ <>Returned

C1_Witness ==
  /\ Returned
  /\ max_iter_ >= 2
  /\ ret.iter = max_iter_
  /\ Len(evals) = max_iter_

\* C2: a call that returns success reports a residual <= tol and an
\* iteration count < max_iter.
C2_SuccessMeansConverged ==
  (Returned /\ ret.error = success) => (FLe(ret.rsd, tol_) /\ ret.iter < max_iter_)

\* C3: when no root failure occurs and the residual computed in one of the
\* iterations 1 .. max_iter (the max_iter-th included) is <= tol, the status
\* is success, not max_iter_reached.
C3_ConvergedInBudgetIsSuccess ==
  (/\ Returned
   /\ ret.error # multiple_roots_not_found
   /\ \E i \in 1..Len(rsds) : i <= max_iter_ /\ FLe(rsds[i], tol_))
  => ret.error = success

\* C4: the call returns multiple_roots_not_found exactly when an iteration
\* of the loop met a root set of fewer than 2 entries; that iteration is
\* the last one, it leaves the pressure as it was, and the report carries
\* the residual of the iteration before it (1 if there is none) and the
\* number of iterations completed before it.
C4_MultipleRootsNotFound ==
  Returned =>
    /\ (ret.error = multiple_roots_not_found)
         <=> (\E i \in 1..Len(evals) : Len(eos[evals[i]].z) < 2)
    /\ (ret.error = multiple_roots_not_found) =>
         /\ Len(eos[LastEval].z) < 2
         /\ \A i \in 1..(Len(evals) - 1) : Len(eos[evals[i]].z) >= 2
         /\ p = LastEval
         /\ ret.iter = Len(evals) - 1
         /\ ret.iter = Len(rsds)
         /\ ret.rsd = (IF ret.iter = 0 THEN One ELSE rsds[ret.iter])
         /\ FGt(ret.rsd, tol_)
         /\ ret.iter < max_iter_

C4_Witness ==
  /\ Returned
  /\ ret.error = multiple_roots_not_found
  /\ ret.iter >= 1
  /\ ret.rsd # One

\* C5: a failing return (max_iter_reached, multiple_roots_not_found) carries
\* the pressure 0 and the report (residual, iteration count, status),
\* whatever the pressure iterate is; the iterate is returned with success
\* only.
C5_FailureReturnsZeroPressure ==
  Returned =>
    /\ Failed => (ret.p = 0 /\ ret.rsd = eps /\ ret.iter = iter)
    /\ (ret.error = success) => (ret.p = p /\ ret.rsd = eps /\ ret.iter = iter)
    /\ (ret.p # 0) => (ret.error = success)

C5_Witness ==
  /\ Returned
  /\ ret.error = max_iter_reached
  /\ iter >= 1
  /\ p # 0
  /\ ret.p = 0

\* C9 as stated: after a call that returned success with pressure p*, the
\* relative difference |1 - phi_liq / phi_vap| re-evaluated at p* is <= tol.
C9_FugacitiesEqualAtReturnedPressure ==
  (pc = "checked") => FLe(chk.at_ret, tol_)

\* C9 as amended: after a call that returned success after at least one
\* iteration, the reported residual is |1 - phi_liq / phi_vap| re-evaluated
\* at the last pressure the loop evaluated, it is not greater than tol, and
\* the returned pressure is that pressure times phi_liq / phi_vap there.
C9_ResidualIsOfPreviousIterate ==
  (pc = "checked" /\ ret.iter >= 1) =>
    /\ chk.at_prev = ret.rsd
    /\ ~FGt(chk.at_prev, tol_)
    /\ ret.p = FMul(LastEval, PhiRatio(eos[LastEval]))

C9_Witness ==
  /\ pc = "checked"
  /\ ret.iter >= 1
  /\ FLe(chk.at_prev, tol_)
  /\ FGt(chk.at_ret, tol_)
  /\ ret.p # LastEval

\* the entries of a root set
Entries(z) == {z[i] : i \in 1..Len(z)}

\* the largest and the smallest entry of a non-empty root set
Largest(z) == CHOOSE v \in Entries(z) : \A w \in Entries(z) : w <= v

Smallest(z) == CHOOSE v \in Entries(z) : \A w \in Entries(z) : v <= w

\* C11: every step of the call that evaluates the Eos at the pressure p and
\* meets a root set of at least 2 entries takes the largest entry as the
\* vapor root and the smallest as the liquid root, sets the residual to
\* |1 - phi_liq / phi_vap|, multiplies the pressure by that same ratio and
\* adds exactly 1 to the iteration count, and does not return; the residual
\* is therefore the one at the pressure before the update.
C11_IterationStep ==
  [][(evals' # evals /\ Len(eos'[p].z) >= 2) =>
       LET st    == eos'[p]
           z_vap == Largest(st.z)
           z_liq == Smallest(st.z)
           ratio == FDiv(st.phi[z_liq], st.phi[z_vap])
       IN /\ evals' = Append(evals, p)
          /\ eps' = FAbs1Minus(ratio)
          /\ rsds' = Append(rsds, FAbs1Minus(ratio))
          /\ p' = FMul(p, ratio)
          /\ iter' = iter + 1
          /\ pc' = "loop"]_vars

\* two iterations have run, the first on a root set of exactly 2 entries
\* and the second on an unsorted one of 3, each with a ratio of its own
C11_Witness ==
  /\ iter = 2
  /\ Len(eos[evals[1]].z) = 2
  /\ eos[evals[2]].z = <<90, 30, 60>>
  /\ rsds = <<50, 5>>
  /\ evals[2] = FMul(p_init, 50)
  /\ p = FMul(evals[2], 105)

\* phi_liq / phi_vap of the answer the Eos gave in the k-th iteration
RatioOfIteration(k) ==
  LET st == eos[evals[k]]
  IN FDiv(st.phi[Smallest(st.z)], st.phi[Largest(st.z)])

\* C12: when the ratio phi_liq / phi_vap of an iteration k is NaN, that
\* iteration is the last one (the Eos is not evaluated again), it leaves a
\* NaN residual and a NaN pressure, and the call returns
\* (NaN, {NaN, k, success}) when k < max_iter and
\* (0, {NaN, k, max_iter_reached}) when k = max_iter.
C12_NaNRatioEndsLoop ==
  \A k \in 1..Len(rsds) :
    (RatioOfIteration(k) = NaN) =>
      /\ k = Len(evals)
      /\ k <= max_iter_
      /\ iter = k /\ eps = NaN /\ p = NaN
      /\ Returned =>
           ret = (IF k < max_iter_ THEN Return(NaN, NaN, k, success)
                                   ELSE Return(0, NaN, k, max_iter_reached))

\* the second of three allowed iterations met a NaN ratio and the call
\* returned success
C12_Witness ==
  /\ Returned
  /\ max_iter_ = 3
  /\ Len(rsds) = 2
  /\ rsds[1] # NaN
  /\ RatioOfIteration(2) = NaN
  /\ ret = Return(NaN, NaN, 2, success)

\* C13: a degenerate configuration skips the loop body, so the Eos is never
\* evaluated by the call: with max_iter <= 0 the call returns
\* (0, {1, 0, max_iter_reached}) for every tol and p_init, and with tol >= 1
\* and max_iter > 0 it returns (p_init, {1, 0, success}) for every p_init,
\* whatever the Eos would have answered.
C13_DegenerateConfigurationSkipsLoop ==
  /\ (max_iter_ <= 0) =>
       /\ evals = <<>> /\ eos = <<>>
       /\ iter = 0 /\ eps = One /\ p = p_init
       /\ Returned => ret = Return(0, One, 0, max_iter_reached)
  /\ (tol_ >= One /\ max_iter_ > 0) =>
       /\ evals = <<>> /\ (pc # "checked" => eos = <<>>)
       /\ iter = 0 /\ eps = One /\ p = p_init
       /\ Returned => ret = Return(p_init, One, 0, success)

\* the call returned success without an iteration at tol = 1 exactly
C13_Witness ==
  /\ pc = "done"
  /\ tol_ = One
  /\ max_iter_ > 0
  /\ eos = <<>>
  /\ ret = Return(p_init, One, 0, success)

\* x == y on double: false when either side is NaN
FEq(x, y) == x # NaN /\ y # NaN /\ x = y

\* C14: when the root set of an iteration k has at least 2 entries and its
\* smallest and largest entries are equal, phi_liq == phi_vap, the residual
\* of that iteration is 0 and the pressure is left as it was, the iteration
\* is the last one, and with k < max_iter the call returns that pressure
\* with success (not multiple_roots_not_found).
C14_RepeatedRootConverges ==
  Returned =>
    \A k \in 1..Len(rsds) :
      LET st == eos[evals[k]]
      IN (Len(st.z) >= 2 /\ Smallest(st.z) = Largest(st.z)) =>
           /\ FEq(st.phi[Smallest(st.z)], st.phi[Largest(st.z)])
           /\ rsds[k] = 0
           /\ k = Len(evals)
           /\ iter = k /\ eps = 0 /\ p = evals[k]
           /\ (k < max_iter_) => ret = Return(evals[k], 0, k, success)

-----------------------------------------------------------------------------
(* Claims about the root solver                                            *)

\* the discriminant 18abc - 4a^3c + a^2b^2 - 4b^3 - 27c^2 of x^3 + a x^2 + b x + c
Discriminant(a) ==
  18 * a[1] * a[2] * a[3] - 4 * a[1] * a[1] * a[1] * a[3] + a[1] * a[1] * a[2] * a[2]
    - 4 * a[2] * a[2] * a[2] - 27 * a[3] * a[3]

\* the number of distinct real roots of the cubic
DistinctRealRoots(a) ==
  IF Discriminant(a) > 0 THEN 3
  ELSE IF Discriminant(a) < 0 THEN 1
  ELSE IF a[1] * a[1] = 3 * a[2] THEN 1 ELSE 2

\* v lies within 1 / 6 of the integer r (roots are carried times 3 * One)
Near(v, r) == Abs(v - 3 * One * r) <= One \div 2

\* C6: for a cubic with the three real roots r1 <= r2 <= r3, real_roots
\* returns [r1, r2, r3], in ascending order.
C6_RealRootsAscending ==
  \A r \in RootTriples :
    ("real_roots" \in called /\ coef = FromRoots(r[1], r[2], r[3])) =>
      /\ Len(xreal) = 3
      /\ \A i \in 1..3 : Near(xreal[i], r[i])
      /\ xreal[1] <= xreal[2] /\ xreal[2] <= xreal[3]

\* the number of distinct values among the entries of xs, entries within
\* 1 / 6 of an earlier entry counted with it
DistinctEntries(xs) ==
  Cardinality({i \in 1..Len(xs) : \A j \in 1..(i - 1) : Abs(xs[i] - xs[j]) > One \div 2})

\* C7: num_of_real_roots returns the number of distinct real roots of the
\* cubic and agrees with the number of distinct values real_roots returns.
C7_RootCountAgrees ==
  (called = {"real_roots", "num_of_real_roots"}) =>
    (nreal = DistinctRealRoots(coef) /\ nreal = DistinctEntries(xreal))

\* C8: the root set real_roots returns has between 1 and 3 entries.
C8_RootSetNeverEmpty ==
  ("real_roots" \in called) => (1 <= Len(xreal) /\ Len(xreal) <= 3)

-----------------------------------------------------------------------------
(* Claims about the parameters an EoS object caches                        *)

\* the object a constructor builds from the latest arguments
Fresh ==
  IF eosobj.kind = van_der_waals_eos
  THEN VdwConstruct(lastargs.pc, lastargs.tc)
  ELSE PrConstruct(lastargs.pc, lastargs.tc, lastargs.omega)

\* C10: after construction and after any sequence of set_params calls the
\* object equals a freshly constructed one with the latest arguments:
\* pc_ and tc_ are the latest values, so reduced_pressure(pc) and
\* reduced_temperature(tc) are 1, ac_ and bc_ are recomputed from them, and
\* for Peng-Robinson m_ is m of the latest omega.
C10_SetParamsRebuildsObject ==
  /\ eosobj = Fresh
  /\ eosobj.pc_ = lastargs.pc
  /\ eosobj.tc_ = lastargs.tc
  /\ reduced_pressure(eosobj, lastargs.pc) = One
  /\ reduced_temperature(eosobj, lastargs.tc) = One
  /\ eosobj.ac_ = critical_attraction_param(eosobj.kind, lastargs.pc, lastargs.tc)
  /\ eosobj.bc_ = critical_repulsion_param(eosobj.kind, lastargs.pc, lastargs.tc)
  /\ (eosobj.kind = peng_robinson_eos) =>
       (eosobj.omega_ = lastargs.omega /\ eosobj.m_ = m(lastargs.omega))

C10_Witness ==
  /\ nsets >= 2
  /\ eosobj.kind = peng_robinson_eos
  /\ eosobj.pc_ = 2 * One
  /\ eosobj.tc_ = 3 * One
  /\ eosobj.omega_ = 50

=============================================================================
